---- MODULE Spec2Model ----
(***************************************************************************)
(* Model of the combined-product catalog (db_schema_new.py) and of the     *)
(* read-side queries of db_read_new.py:                                    *)
(*   search_combined_product_combinations,                                 *)
(*   calculate_combined_product_pricing, get_all_combined_product_pricings *)
(*   and the three reporting helpers built on it.                          *)
(* The catalog tables are the state.  Under Spec a query is one atomic     *)
(* step that records its arguments, its local list total_results as it     *)
(* stands when the product loop ends, and the value it returns or the      *)
(* exception it ends with.  SpecRepeat lets a query be issued a second     *)
(* time; SpecInterleaved runs the search query by query next to a writer   *)
(* of db_update_new.py.                                                    *)
(***************************************************************************)
EXTENDS Integers, Sequences, FiniteSets, TLC

VARIABLES
    Company,                      \* set of company ids (table Company)
    ServicePlan,                  \* set of rows of table ServicePlan
    CombinedProduct,              \* rows of table CombinedProduct, in rowid order
    CombinedProductEligibility,   \* set of rows
    Discount,                     \* set of rows
    DiscountConditionByPlan,      \* set of rows
    DiscountConditionByLineCount, \* set of rows
    call,                         \* the last query: its name and arguments
    enumerated,                   \* search: total_results before the sort
    result,                       \* the value the last query returned
    raised,                       \* the exception the last query ended with
    repeated,                     \* the last query has been issued twice
    progress                      \* position of a search that runs stepwise

tables == <<Company, ServicePlan, CombinedProduct, CombinedProductEligibility,
            Discount, DiscountConditionByPlan, DiscountConditionByLineCount>>
vars == <<Company, ServicePlan, CombinedProduct, CombinedProductEligibility,
          Discount, DiscountConditionByPlan, DiscountConditionByLineCount,
          call, enumerated, result, raised, repeated, progress>>

(***************************************************************************)
(* Bounds of the model.                                                    *)
(***************************************************************************)
MaxCount == 2        \* largest value passed in min_counts / max_counts
MaxLimit == 2        \* largest small value passed as limit

DefaultLimit == 10   \* limit: int = 10

\* A nullable column holds NULL or Some(v); a function that may return None
\* returns None or a dict.
NULL == <<>>
Some(v) == <<v>>
None == [is_none |-> TRUE]

\* plans_by_type = {"Mobile": [], "Internet": [], "TV": []}: dict order
ServiceTypes == <<"Mobile", "Internet", "TV">>
TypeSet == {ServiceTypes[i] : i \in 1..Len(ServiceTypes)}

(***************************************************************************)
(* Generic sequence helpers.                                               *)
(***************************************************************************)
Range(s) == {s[i] : i \in 1..Len(s)}

RECURSIVE Flatten(_)
\* concatenation of a sequence of sequences
Flatten(ss) == IF ss = <<>> THEN <<>> ELSE Head(ss) \o Flatten(Tail(ss))

RECURSIVE SumSeq(_)
\* sum(...) over a list of integers
SumSeq(s) == IF s = <<>> THEN 0 ELSE Head(s) + SumSeq(Tail(s))

(***************************************************************************)
(* The universe the catalog rows are drawn from.  A ServicePlan id is the  *)
(* hash of (company, service type, name), so an id fixes those three.      *)
(* Plans a and b are the Internet plans A and B, c is the Mobile plan C    *)
(* and t a TV plan.  Plan a2 is a Mobile plan of another company that is   *)
(* named A as well, and w a plan of a service type the search has no key   *)
(* for.                                                                    *)
(***************************************************************************)
PlanIds == <<"a", "a2", "b", "c", "t", "w">>   \* in the order of the primary-key index
PlanIdSet == Range(PlanIds)
PlanName == [a |-> "A", a2 |-> "A", b |-> "B", c |-> "C", t |-> "T", w |-> "W"]
PlanType == [a |-> "Internet", a2 |-> "Mobile", b |-> "Internet", c |-> "Mobile",
             t |-> "TV", w |-> "Wearable"]
ProductIds == {"P1", "P2"}

PlanRow(id, fee) ==
    [id |-> id, company_id |-> 1, name |-> PlanName[id],
     service_type |-> PlanType[id], fee |-> fee]

\* the columns of CombinedProduct the model keeps: the stored bounds allow
\* one Internet line and one TV line, and set no bound on Mobile lines
ProductRow(id) ==
    [id |-> id, name |-> id, company_id |-> 1, max_mobile_lines |-> NULL,
     max_internet_lines |-> Some(1), max_iptv_lines |-> Some(1)]

\* a product whose company_id names no row of Company (foreign keys are not
\* enforced: no PRAGMA foreign_keys)
OrphanRow(id) == [ProductRow(id) EXCEPT !.company_id = 2]

(***************************************************************************)
(* classify_discount_type(cursor, discount_id)                             *)
(***************************************************************************)
classify_discount_type(discount_id) ==
    LET plan_count == Cardinality({r \in DiscountConditionByPlan :
                                      r.discount_id = discount_id})
        line_count == Cardinality({r \in DiscountConditionByLineCount :
                                      r.discount_id = discount_id})
    IN  IF plan_count > 0 /\ line_count > 0 THEN "mixed"
        ELSE IF plan_count > 0 THEN "plan_based"
        ELSE IF line_count > 0 THEN "line_based"
        ELSE "simple"

(***************************************************************************)
(* search_combined_product_combinations: the eligible plans of a product.  *)
(* SELECT sp.id, sp.name, sp.fee, sp.service_type FROM ServicePlan sp      *)
(* JOIN CombinedProductEligibility cpe ON sp.id = cpe.service_plan_id      *)
(* WHERE cpe.combined_product_id = ?   -- rows come in index order of      *)
(* (combined_product_id, service_plan_id)                                  *)
(***************************************************************************)
\* the join without its WHERE clause: the plans eligible for any product
EligibleRowsOfAnyProduct(combined_product_id) ==
    LET joined(id) == {sp \in Range(ServicePlan) :
                          /\ sp.id = id
                          /\ \E cpe \in CombinedProductEligibility :
                                cpe.service_plan_id = id}
        ids == SelectSeq(PlanIds, LAMBDA id : joined(id) # {})
    IN  [i \in 1..Len(ids) |->
            LET sp == CHOOSE r \in joined(ids[i]) : TRUE
            IN  [id |-> sp.id, name |-> sp.name, fee |-> sp.fee,
                 service_type |-> sp.service_type]]

EligibleRows(combined_product_id) ==
    LET joined(id) == {sp \in Range(ServicePlan) :
                          /\ sp.id = id
                          /\ \E cpe \in CombinedProductEligibility :
                                /\ cpe.combined_product_id = combined_product_id
                                /\ cpe.service_plan_id = id}
        ids == SelectSeq(PlanIds, LAMBDA id : joined(id) # {})
    IN  [i \in 1..Len(ids) |->
            LET sp == CHOOSE r \in joined(ids[i]) : TRUE
            IN  [id |-> sp.id, name |-> sp.name, fee |-> sp.fee,
                 service_type |-> sp.service_type]]

\* plans_by_type: rows whose service_type is no key of the dict are dropped
plans_by_type(combined_product_id) ==
    [ty \in TypeSet |->
        SelectSeq(EligibleRows(combined_product_id),
                  LAMBDA row : row.service_type = ty)]

(***************************************************************************)
(* itertools.combinations_with_replacement(plans, r): the non-decreasing   *)
(* index tuples of length r, in lexicographic order.                       *)
(***************************************************************************)
RECURSIVE CombinationsFrom(_, _, _)
CombinationsFrom(plans, r, start) ==
    IF r = 0 THEN << <<>> >>
    ELSE Flatten([k \in 1..(Len(plans) - start + 1) |->
            LET i == start + k - 1
                rest == CombinationsFrom(plans, r - 1, i)
            IN  [j \in 1..Len(rest) |-> <<plans[i]>> \o rest[j]]])

RECURSIVE CombinationsAfter(_, _, _)
\* itertools.combinations: strictly increasing index tuples
CombinationsAfter(plans, r, start) ==
    IF r = 0 THEN << <<>> >>
    ELSE Flatten([k \in 1..(Len(plans) - start + 1) |->
            LET i == start + k - 1
                rest == CombinationsAfter(plans, r - 1, i + 1)
            IN  [j \in 1..Len(rest) |-> <<plans[i]>> \o rest[j]]])

combinations_without_replacement(plans, r) == CombinationsAfter(plans, r, 1)

\* a type without plans is passed over: one empty combination
combinations_or_nothing(plans, r) ==
    IF plans = <<>> THEN << <<>> >> ELSE CombinationsFrom(plans, r, 1)

\* called with r >= 0 only: a negative r raises ValueError (NegativeSize)
combinations_with_replacement(plans, r) == CombinationsFrom(plans, r, 1)

\* for r in range(min_count, max_count): the last size is left out
service_type_combos_exclusive(plans, min_count, max_count) ==
    Flatten([k \in 1..(max_count - min_count) |->
                combinations_with_replacement(plans, min_count + k - 1)])

\* a minimum above the maximum is taken as the one size asked for
service_type_combos_at_least(plans, min_count, max_count) ==
    IF min_count > max_count /\ min_count >= 0
        THEN combinations_with_replacement(plans, min_count)
        ELSE Flatten([k \in 1..(max_count - min_count + 1) |->
                        combinations_with_replacement(plans, min_count + k - 1)])

\* for r in range(min_count, max_count + 1): service_type_combos.extend(...)
service_type_combos(plans, min_count, max_count) ==
    Flatten([k \in 1..(max_count - min_count + 1) |->
                combinations_with_replacement(plans, min_count + k - 1)])

\* dict.get(service_type, 0)
DictGet(d, key, default) == IF key \in DOMAIN d THEN d[key] ELSE default

all_type_combinations(pbt, min_counts, max_counts) ==
    [i \in 1..Len(ServiceTypes) |->
        service_type_combos(pbt[ServiceTypes[i]],
                            DictGet(min_counts, ServiceTypes[i], 0),
                            DictGet(max_counts, ServiceTypes[i], 0))]

\* itertools.product(*lists): the leftmost list varies slowest
RECURSIVE product(_)
product(lists) ==
    IF lists = <<>> THEN << <<>> >>
    ELSE LET rest == product(Tail(lists))
             first == Head(lists)
         IN  Flatten([i \in 1..Len(first) |->
                        [j \in 1..Len(rest) |-> <<first[i]>> \o rest[j]]])

\* combined = []; for sublist in combo_set: combined.extend(sublist)
all_combinations(pbt, min_counts, max_counts) ==
    LET sets == product(all_type_combinations(pbt, min_counts, max_counts))
    IN  [i \in 1..Len(sets) |-> Flatten(sets[i])]

(***************************************************************************)
(* search_combined_product_combinations: pricing of one combination.       *)
(***************************************************************************)
RECURSIVE SumOverrides(_)
\* sum([row["override_discount_value"] for row in discounts
\*      if row["override_discount_value"] is not None])
SumOverrides(rows) ==
    IF rows = {} THEN 0
    ELSE LET row == CHOOSE r \in rows : TRUE
         IN  (IF row.override_discount_value # NULL
                THEN row.override_discount_value[1] ELSE 0)
             + SumOverrides(rows \ {row})

\* the query without its subquery: the rows of the plan under any discount
PlanDiscountRowsOfAnyProduct(service_plan_id, combined_product_id) ==
    {dcbp \in DiscountConditionByPlan : dcbp.service_plan_id = service_plan_id}

\* SELECT dcbp.override_discount_value FROM DiscountConditionByPlan dcbp
\* WHERE dcbp.service_plan_id = ? AND dcbp.discount_id IN
\*       (SELECT id FROM Discount WHERE combined_product_id = ?)
PlanDiscountRows(service_plan_id, combined_product_id) ==
    {dcbp \in DiscountConditionByPlan :
        /\ dcbp.service_plan_id = service_plan_id
        /\ \E d \in Discount : /\ d.combined_product_id = combined_product_id
                               /\ d.id = dcbp.discount_id}

PlanDiscount(plan, combined_product_id) ==
    SumOverrides(PlanDiscountRows(plan.id, combined_product_id))

\* a pricing that floors the final price at zero
PricedCombinationClamped(cp, combo, discount_type) ==
    LET total_fee == SumSeq([i \in 1..Len(combo) |-> combo[i].fee])
        total_discount ==
            SumSeq([i \in 1..Len(combo) |-> PlanDiscount(combo[i], cp.id)])
        final_price == IF total_fee > total_discount
                        THEN total_fee - total_discount ELSE 0
    IN  [combined_product_name |-> cp.name,
         plans |-> combo,
         total_base_fee |-> total_fee,
         total_discount_amount |-> total_discount,
         final_price |-> final_price,
         discount_type |-> discount_type,
         combined_product_id |-> cp.id]

\* a pricing that counts every distinct plan of the combination once
PricedCombinationOncePerPlan(cp, combo, discount_type) ==
    LET firsts == SelectSeq([i \in 1..Len(combo) |-> i],
                    LAMBDA i : \A j \in 1..(i - 1) : combo[j].id # combo[i].id)
        total_fee == SumSeq([k \in 1..Len(firsts) |-> combo[firsts[k]].fee])
        total_discount ==
            SumSeq([k \in 1..Len(firsts) |-> PlanDiscount(combo[firsts[k]], cp.id)])
        final_price == total_fee - total_discount
    IN  [combined_product_name |-> cp.name,
         plans |-> combo,
         total_base_fee |-> total_fee,
         total_discount_amount |-> total_discount,
         final_price |-> final_price,
         discount_type |-> discount_type,
         combined_product_id |-> cp.id]

PricedCombination(cp, combo, discount_type) ==
    LET total_fee == SumSeq([i \in 1..Len(combo) |-> combo[i].fee])
        total_discount ==
            SumSeq([i \in 1..Len(combo) |-> PlanDiscount(combo[i], cp.id)])
        final_price == total_fee - total_discount
    IN  [combined_product_name |-> cp.name,
         plans |-> combo,
         total_base_fee |-> total_fee,
         total_discount_amount |-> total_discount,
         final_price |-> final_price,
         discount_type |-> discount_type,
         combined_product_id |-> cp.id]

\* the filter left out: every combination is priced
PassesWithoutFilter(combo, required_plan_names) == TRUE

\* if required_plan_names and not any(name in combo_plan_names ...): continue
PassesRequiredFilter(combo, required_plan_names) ==
    LET combo_plan_names == {combo[i].name : i \in 1..Len(combo)}
    IN  \/ required_plan_names = <<>>
        \/ \E name \in Range(required_plan_names) : name \in combo_plan_names

\* combinations_with_replacement(plans, r) is called with a negative r for
\* some service type: range(min_count, max_count + 1) holds one
NegativeSize(min_counts, max_counts) ==
    \E ty \in TypeSet :
        \E r \in DictGet(min_counts, ty, 0)..DictGet(max_counts, ty, 0) : r < 0

\* the product is not skipped by `if not all(name in all_plan_names ...)`
PassesProductFilter(combined_product_id, required_plan_names) ==
    LET pbt == plans_by_type(combined_product_id)
        all_plan_names ==
            UNION {{pbt[ty][i].name : i \in 1..Len(pbt[ty])} : ty \in TypeSet}
    IN  \A name \in Range(required_plan_names) : name \in all_plan_names

\* the call ends with the ValueError of combinations_with_replacement: some
\* product reaches the loop over the service types with a negative size
SearchRaises(min_counts, max_counts, required_plan_names) ==
    /\ NegativeSize(min_counts, max_counts)
    /\ \E cp \in Range(CombinedProduct) :
            PassesProductFilter(cp.id, required_plan_names)

\* one iteration of `for combined_product in all_combined_products`
ProductResults(cp, min_counts, max_counts, required_plan_names) ==
    LET discount_type == classify_discount_type(cp.id)
        pbt == plans_by_type(cp.id)
        all_plan_names ==
            UNION {{pbt[ty][i].name : i \in 1..Len(pbt[ty])} : ty \in TypeSet}
    IN  IF /\ required_plan_names # <<>>
           /\ \E name \in Range(required_plan_names) : name \notin all_plan_names
        THEN <<>>
        ELSE LET kept == SelectSeq(all_combinations(pbt, min_counts, max_counts),
                            LAMBDA combo :
                                PassesRequiredFilter(combo, required_plan_names))
             IN  [i \in 1..Len(kept) |->
                    PricedCombination(cp, kept[i], discount_type)]

\* total_results when the product loop ends (before the sort)
total_results(min_counts, max_counts, required_plan_names) ==
    Flatten([i \in 1..Len(CombinedProduct) |->
        ProductResults(CombinedProduct[i], min_counts, max_counts,
                       required_plan_names)])

(***************************************************************************)
(* list.sort(key=..., reverse=...): stable in both directions.             *)
(***************************************************************************)
\* An element is preceded by the elements with a strictly better key and by
\* the earlier elements with an equal key (equal keys keep their order, also
\* under reverse=True).
\* a descending sort made of an ascending sort and a reversal: equal keys
\* come out in reverse order
SortPositionReversing(s, i, key, reverse) ==
    LET better(j) == IF reverse THEN s[j][key] > s[i][key]
                                ELSE s[j][key] < s[i][key]
        tie(j) == IF reverse THEN j > i ELSE j < i
    IN  1 + Cardinality({j \in 1..Len(s) :
                            better(j) \/ (s[j][key] = s[i][key] /\ tie(j))})

SortPosition(s, i, key, reverse) ==
    LET better(j) == IF reverse THEN s[j][key] > s[i][key]
                                ELSE s[j][key] < s[i][key]
    IN  1 + Cardinality({j \in 1..Len(s) :
                            better(j) \/ (s[j][key] = s[i][key] /\ j < i)})

ListSort(s, key, reverse) ==
    LET at == [i \in 1..Len(s) |-> SortPosition(s, i, key, reverse)]
    IN  [p \in 1..Len(s) |-> s[CHOOSE i \in 1..Len(s) : at[i] = p]]

\* the chain with the final price sorted the wrong way round
SortResultsPriceDescending(s, sort_by) ==
    IF sort_by = "max_discount_amount"
        THEN ListSort(s, "total_discount_amount", TRUE)
    ELSE IF sort_by = "min_final_price"
        THEN ListSort(s, "final_price", TRUE)
    ELSE IF sort_by = "max_total_base_fee"
        THEN ListSort(s, "total_base_fee", TRUE)
    ELSE s

\* a chain with a final else that sorts by the discount total
SortResultsWithDefault(s, sort_by) ==
    IF sort_by = "min_final_price"
        THEN ListSort(s, "final_price", FALSE)
    ELSE IF sort_by = "max_total_base_fee"
        THEN ListSort(s, "total_base_fee", TRUE)
    ELSE ListSort(s, "total_discount_amount", TRUE)

\* the if / elif chain on sort_by; any other value leaves the list as it is
SortResults(s, sort_by) ==
    IF sort_by = "max_discount_amount"
        THEN ListSort(s, "total_discount_amount", TRUE)
    ELSE IF sort_by = "min_final_price"
        THEN ListSort(s, "final_price", FALSE)
    ELSE IF sort_by = "max_total_base_fee"
        THEN ListSort(s, "total_base_fee", TRUE)
    ELSE s

\* the list as it is: no collapse to one result per product
KeepAll(s) == s

\* list({r["combined_product_id"]: r for r in total_results}.values()):
\* a key keeps the position of its first insertion and the value of its last
DictValuesByProduct(s) ==
    LET firsts == SelectSeq([i \in 1..Len(s) |-> i],
                    LAMBDA i : \A j \in 1..(i - 1) :
                        s[j].combined_product_id # s[i].combined_product_id)
        last(id) == CHOOSE i \in 1..Len(s) :
                        /\ s[i].combined_product_id = id
                        /\ \A j \in (i + 1)..Len(s) : s[j].combined_product_id # id
    IN  [k \in 1..Len(firsts) |-> s[last(s[firsts[k]].combined_product_id)]]

\* s[:limit]
SliceTo(s, limit) ==
    IF limit >= 0
        THEN SubSeq(s, 1, IF limit < Len(s) THEN limit ELSE Len(s))
        ELSE SubSeq(s, 1, IF Len(s) + limit > 0 THEN Len(s) + limit ELSE 0)

\* the value search_combined_product_combinations returns
SearchReturn(sorted, limit, only_products) ==
    IF only_products THEN SliceTo(DictValuesByProduct(sorted), limit)
    ELSE SliceTo(sorted, limit)

(***************************************************************************)
(* calculate_combined_product_pricing                                      *)
(***************************************************************************)
\* SELECT ... FROM CombinedProduct cp JOIN Company c ON cp.company_id = c.id
\* WHERE cp.id = ?
ProductInfoRows(combined_product_id) ==
    {[id |-> cp.id, name |-> cp.name, company_name |-> c.name] :
        <<cp, c>> \in {pr \in Range(CombinedProduct) \X Company :
                          /\ pr[1].id = combined_product_id
                          /\ pr[1].company_id = pr[2].id}}

\* SELECT sp.name, sp.fee, sp.service_type ... AND sp.service_type = ?
\* ORDER BY sp.fee DESC
PlansOfTypeByFee(combined_product_id, service_type) ==
    LET rows == SelectSeq(EligibleRows(combined_product_id),
                          LAMBDA row : row.service_type = service_type)
        byfee == ListSort(rows, "fee", TRUE)
    IN  [i \in 1..Len(byfee) |->
            [name |-> byfee[i].name, fee |-> byfee[i].fee,
             service_type |-> byfee[i].service_type]]

associated_plans(combined_product_id) ==
    PlansOfTypeByFee(combined_product_id, "Mobile")
    \o PlansOfTypeByFee(combined_product_id, "Internet")
    \o PlansOfTypeByFee(combined_product_id, "TV")

\* (SELECT id FROM ServicePlan WHERE name = ? LIMIT 1): first row in rowid order
PlanIdByName(name) ==
    LET hits == {i \in 1..Len(ServicePlan) : ServicePlan[i].name = name}
    IN  IF hits = {} THEN NULL
        ELSE Some(ServicePlan[CHOOSE i \in hits : \A j \in hits : i <= j].id)

\* the rows the plan_cond query returns for one discount and one associated plan
PlanCondRows(discount_id, plan_name) ==
    {dcbp \in DiscountConditionByPlan :
        /\ dcbp.discount_id = discount_id
        /\ PlanIdByName(plan_name) = Some(dcbp.service_plan_id)
        /\ \E sp \in Range(ServicePlan) : sp.id = dcbp.service_plan_id}

\* what one (discount, associated plan) pair adds to total_discount_amount
PlanCondAmount(discount, ap) ==
    LET rows == PlanCondRows(discount.id, ap.name)
    IN  IF rows = {} THEN 0
        ELSE LET plan_cond == CHOOSE r \in rows : TRUE
             IN  IF plan_cond.override_discount_value # NULL
                    THEN plan_cond.override_discount_value[1]
                    ELSE discount.discount_value

RECURSIVE SumDiscounts(_, _)
SumDiscounts(discounts, aps) ==
    IF discounts = {} THEN 0
    ELSE LET d == CHOOSE x \in discounts : TRUE
         IN  SumSeq([i \in 1..Len(aps) |-> PlanCondAmount(d, aps[i])])
             + SumDiscounts(discounts \ {d}, aps)

calculate_combined_product_pricing(combined_product_id) ==
    LET infos == ProductInfoRows(combined_product_id)
    IN  IF infos = {} THEN None
        ELSE LET product_info == CHOOSE r \in infos : TRUE
                 aps == associated_plans(combined_product_id)
                 total_base_fee == SumSeq([i \in 1..Len(aps) |-> aps[i].fee])
                 discounts == {d \in Discount :
                                  d.combined_product_id = combined_product_id}
                 total_discount_amount == SumDiscounts(discounts, aps)
                 final_price == total_base_fee - total_discount_amount
             IN  [combined_product_id |-> product_info.id,
                  combined_product_name |-> product_info.name,
                  company_name |-> product_info.company_name,
                  associated_plans |-> aps,
                  total_base_fee |-> total_base_fee,
                  total_discount_amount |-> total_discount_amount,
                  final_price |-> final_price]

(***************************************************************************)
(* get_all_combined_product_pricings and the three reporting helpers.      *)
(***************************************************************************)
\* SELECT id FROM CombinedProduct: the scan runs over the primary-key index,
\* so the ids come in the order of that index
ProductIdOrder == <<"P1", "P2">>
product_ids ==
    SelectSeq(ProductIdOrder, LAMBDA id : \E cp \in Range(CombinedProduct) : cp.id = id)

\* the pricings that are truthy: every one but None
Truthy(pricings) == SelectSeq(pricings, LAMBDA p : p # None)

\* every pricing is appended, a None as well
AllPricingsUnfiltered ==
    [i \in 1..Len(product_ids) |-> calculate_combined_product_pricing(product_ids[i])]

\* if pricing_data: all_pricings.append(pricing_data)
get_all_combined_product_pricings ==
    Truthy([i \in 1..Len(product_ids) |->
                calculate_combined_product_pricing(product_ids[i])])

\* max(s, key=...) and min(s, key=...): the first of the best elements
MaxBy(s, key) ==
    s[CHOOSE i \in 1..Len(s) :
        /\ \A j \in 1..Len(s) : s[j][key] <= s[i][key]
        /\ \A j \in 1..(i - 1) : s[j][key] < s[i][key]]
MinBy(s, key) ==
    s[CHOOSE i \in 1..Len(s) :
        /\ \A j \in 1..Len(s) : s[j][key] >= s[i][key]
        /\ \A j \in 1..(i - 1) : s[j][key] > s[i][key]]

\* a str that a helper returns in place of a summary
Str(text) == [str |-> text]

\* the helper answers an empty list of pricings with None
NoProductsNone == None

NoProductsMessage == Str("no combined product information in the database")
NoValidPriceMessage == Str("no combined product with a valid price after discount")

\* [plan['name'] for plan in pricing['associated_plans']]
AssociatedNames(pricing) ==
    [i \in 1..Len(pricing.associated_plans) |-> pricing.associated_plans[i].name]

\* the helper from the list of pricings on
LargestTotalDiscountOf(all_pricings) ==
    IF all_pricings = <<>> THEN NoProductsMessage
    ELSE LET p == MaxBy(all_pricings, "total_discount_amount")
         IN  [message |-> "largest total discount",
              combined_product_name |-> p.combined_product_name,
              company_name |-> p.company_name,
              total_discount_amount |-> p.total_discount_amount,
              associated_plans |-> AssociatedNames(p),
              calculated_pricing_details |-> p]

get_combined_product_with_largest_total_discount ==
    LargestTotalDiscountOf(get_all_combined_product_pricings)

\* valid_pricings keeps every pricing
AllPricingsValid(all_pricings) == all_pricings

\* valid_pricings = [p for p in all_pricings if p['final_price'] > 0]
ValidPricings(all_pricings) ==
    SelectSeq(all_pricings, LAMBDA p : p.final_price > 0)

\* the helper from the list of pricings on
LowestFinalPriceOf(all_pricings) ==
    LET valid_pricings == ValidPricings(all_pricings)
    IN  IF all_pricings = <<>> THEN NoProductsMessage
        ELSE IF valid_pricings = <<>> THEN NoValidPriceMessage
        ELSE LET p == MinBy(valid_pricings, "final_price")
             IN  [message |-> "lowest final price",
                  combined_product_name |-> p.combined_product_name,
                  company_name |-> p.company_name,
                  final_price |-> p.final_price,
                  total_base_fee |-> p.total_base_fee,
                  total_discount_amount |-> p.total_discount_amount,
                  associated_plans |-> AssociatedNames(p),
                  calculated_pricing_details |-> p]

get_combined_product_with_lowest_final_price ==
    LowestFinalPriceOf(get_all_combined_product_pricings)

\* the helper from the list of pricings on
HighestBaseFeeOf(all_pricings) ==
    IF all_pricings = <<>> THEN NoProductsMessage
    ELSE LET p == MaxBy(all_pricings, "total_base_fee")
         IN  [message |-> "highest base fee",
              combined_product_name |-> p.combined_product_name,
              company_name |-> p.company_name,
              total_base_fee |-> p.total_base_fee,
              associated_plans |-> AssociatedNames(p),
              calculated_pricing_details |-> p]

get_combined_product_with_highest_base_fee ==
    HighestBaseFeeOf(get_all_combined_product_pricings)

(***************************************************************************)
(* The catalogs the queries run against (the state a seeded database can   *)
(* be in) and the arguments they are called with.                          *)
(***************************************************************************)
EligibilityRow(combined_product_id, service_plan_id) ==
    [combined_product_id |-> combined_product_id,
     service_plan_id |-> service_plan_id, min_lines |-> 0, max_lines |-> 1]

DiscountRow(id, combined_product_id) ==
    [id |-> id, combined_product_id |-> combined_product_id,
     discount_value |-> 1000, unit |-> "KRW"]

PlanConditionRow(discount_id, service_plan_id, value, unit) ==
    [discount_id |-> discount_id, service_plan_id |-> service_plan_id,
     override_discount_value |-> value, override_unit |-> unit]

\* rows of CombinedProduct in rowid order: every order of every subset
ProductTables ==
    {<<>>} \cup {<<ProductRow(p)>> : p \in ProductIds}
    \cup {<<ProductRow(p), ProductRow(q)>> :
            <<p, q>> \in {pq \in ProductIds \X ProductIds : pq[1] # pq[2]}}

\* rows of ServicePlan in rowid order
StandardPlans ==
    <<PlanRow("a", 30000), PlanRow("b", 20000), PlanRow("c", 40000), PlanRow("t", 10000)>>

\* with a plan of a service type that is none of Mobile, Internet, TV
ForeignTypePlans == Append(StandardPlans, PlanRow("w", 5000))

\* with the plan of company 2 that is named A too, written before plan a
DuplicateNamePlans ==
    <<[PlanRow("a2", 25000) EXCEPT !.company_id = 2]>> \o StandardPlans

PlanTables == {StandardPlans, ForeignTypePlans, DuplicateNamePlans}

\* P1 admits any of the plans a, b, c; P2 admits a, c and the TV plan
EligibilityTables ==
    {{EligibilityRow("P1", id) : id \in e1}
        \cup {EligibilityRow("P2", id) : id \in {"a", "c", "t"}} :
            e1 \in SUBSET {"a", "b", "c"}}

\* discount d1 of P1 overrides plan a (by nothing or by 5000) and plan b (by
\* 10 percent); a second discount d2, of either product, overrides plan a by
\* more than its fee
DiscountConfigs ==
    {[Discount |-> {DiscountRow("d1", "P1")} \cup {DiscountRow("d2", p) : p \in owner},
      DiscountConditionByPlan |->
        {PlanConditionRow("d1", "a", va, "KRW"),
         PlanConditionRow("d1", "b", Some(10), "%")}
        \cup {PlanConditionRow("d2", "a", Some(50000), "KRW") : p \in owner}] :
        owner \in {{}, {"P1"}, {"P2"}}, va \in {NULL, Some(5000)}}

LineConditionTables == {{}}

\* the catalog of the pricing scenario: product P1 alone, plans a, b, c
ScenarioProducts == <<ProductRow("P1")>>
ScenarioEligibility ==
    {EligibilityRow("P1", id) : id \in {"a", "b", "c"}}
    \cup {EligibilityRow("P2", id) : id \in {"a", "c", "t"}}
ScenarioDiscounts ==
    [Discount |-> {DiscountRow("d1", "P1")},
     DiscountConditionByPlan |->
        {PlanConditionRow("d1", "a", Some(5000), "KRW"),
         PlanConditionRow("d1", "b", Some(10), "%")}]
BothProducts == <<ProductRow("P1"), ProductRow("P2")>>

\* the scenario's eligibility with plan w admitted to P1
ForeignTypeEligibility == ScenarioEligibility \cup {EligibilityRow("P1", "w")}

\* the scenario's discounts with a condition of d1 on plan a2
DuplicateNameDiscounts ==
    [Discount |-> ScenarioDiscounts.Discount,
     DiscountConditionByPlan |->
        ScenarioDiscounts.DiscountConditionByPlan
        \cup {PlanConditionRow("d1", "a2", Some(7000), "KRW")}]

\* P1 admits plan a alone, and both discounts are its own: the overrides of a
\* exceed its fee
SinglePlanEligibility ==
    {EligibilityRow("P1", "a")}
    \cup {EligibilityRow("P2", id) : id \in {"a", "c", "t"}}
OwnDiscountConfigs == {dc \in DiscountConfigs : DiscountRow("d2", "P1") \in dc.Discount}

\* tables of products some of which have no company
OrphanTables ==
    {<<ProductRow("P1"), OrphanRow("P2")>>, <<OrphanRow("P2"), ProductRow("P1")>>,
     <<OrphanRow("P1")>>}

KeySets == {TypeSet, {"Mobile", "Internet"}}
CountDicts == UNION {[keys -> 0..MaxCount] : keys \in KeySets}
RequiredLists == {<<>>, <<"A">>, <<"A", "B">>}
SortKeys == {"max_discount_amount", "min_final_price", "max_total_base_fee", "none"}
Limits == {-1} \cup (0..MaxLimit) \cup {DefaultLimit}

SearchCall(min_counts, max_counts, required_plan_names, sort_by, limit, only_products) ==
    [op |-> "search", min_counts |-> min_counts, max_counts |-> max_counts,
     required_plan_names |-> required_plan_names, sort_by |-> sort_by,
     limit |-> limit, only_products |-> only_products]

\* the calls made: any counts with the declared defaults of the ranking
\* arguments, or one dict passed as both min_counts and max_counts (as the
\* module's own __main__ does) with any ranking arguments
\* the catalog: the scenario's discounts under any eligibility of P1 and any
\* table of products that holds P1, or any discounts under both products with
\* the scenario's eligibility, or no product at all, or a product that is
\* discounted below zero, or products without a company, or both products
\* with a plan of a foreign service type, or with two plans of one name
Init ==
    /\ Company = {[id |-> 1, name |-> "kt"]}
    /\ \E sp \in PlanTables, pt \in ProductTables \cup OrphanTables,
          el \in EligibilityTables \cup {ForeignTypeEligibility},
          dc \in DiscountConfigs \cup {DuplicateNameDiscounts} :
        /\ \/ /\ sp = StandardPlans /\ el \in EligibilityTables /\ dc \in DiscountConfigs
              /\ \/ dc = ScenarioDiscounts /\ ProductRow("P1") \in Range(pt)
                        /\ pt \in ProductTables
                 \/ pt = BothProducts /\ el = ScenarioEligibility
                 \/ dc = ScenarioDiscounts /\ el = ScenarioEligibility
                 \/ dc \in OwnDiscountConfigs /\ el = SinglePlanEligibility
                        /\ pt \in ProductTables
           \/ /\ sp = ForeignTypePlans /\ pt = BothProducts
              /\ el = ForeignTypeEligibility /\ dc = ScenarioDiscounts
           \/ /\ sp = DuplicateNamePlans /\ pt = BothProducts
              /\ el = ScenarioEligibility /\ dc = DuplicateNameDiscounts
        /\ ServicePlan = sp
        /\ CombinedProduct = pt
        /\ CombinedProductEligibility = el
        /\ Discount = dc.Discount
        /\ DiscountConditionByPlan = dc.DiscountConditionByPlan
    /\ DiscountConditionByLineCount \in LineConditionTables
    /\ call = [op |-> "none"]
    /\ enumerated = <<>>
    /\ result = None
    /\ raised = "none"
    /\ repeated = FALSE
    /\ progress = [pc |-> "idle"]

(***************************************************************************)
(* search_combined_product_combinations(db_path, ...).  with_combinations  *)
(* is left out: both branches on it return total_results[:limit].          *)
(***************************************************************************)
\* a search that deletes the plan conditions it has read
SearchStepClearingConditions(min_counts, max_counts, required_plan_names, sort_by, limit, only_products, found, sorted) ==
    /\ call' = SearchCall(min_counts, max_counts, required_plan_names,
                          sort_by, limit, only_products)
    /\ enumerated' = found
    /\ result' = SearchReturn(sorted, limit, only_products)
    /\ raised' = "none"
    /\ DiscountConditionByPlan' = {}
    /\ UNCHANGED <<Company, ServicePlan, CombinedProduct, CombinedProductEligibility,
                   Discount, DiscountConditionByLineCount, repeated, progress>>

SearchStep(min_counts, max_counts, required_plan_names, sort_by, limit, only_products, found, sorted) ==
    /\ call' = SearchCall(min_counts, max_counts, required_plan_names,
                          sort_by, limit, only_products)
    /\ enumerated' = found
    /\ result' = SearchReturn(sorted, limit, only_products)
    /\ raised' = "none"
    /\ UNCHANGED <<tables, repeated, progress>>

\* a call that passes one dict as both min_counts and max_counts (as the
\* module's own __main__ does), with any ranking arguments
SearchExact ==
    /\ call.op = "none"
    /\ \E counts \in CountDicts, req \in RequiredLists :
        \E found \in {total_results(counts, counts, req)} :
          \E sort_by \in SortKeys :
            \E sorted \in {SortResults(found, sort_by)} :
              \E limit \in Limits, only \in BOOLEAN :
                SearchStep(counts, counts, req, sort_by, limit, only, found, sorted)

\* a call that asks for lo to hi lines of every service type, with the
\* declared defaults of the ranking arguments
SearchRange ==
    /\ call.op = "none"
    /\ \E lo \in 0..MaxCount, hi \in 0..MaxCount, req \in RequiredLists :
        \E found \in {total_results([ty \in TypeSet |-> lo],
                                    [ty \in TypeSet |-> hi], req)} :
          \E sorted \in {SortResults(found, "max_discount_amount")} :
            SearchStep([ty \in TypeSet |-> lo], [ty \in TypeSet |-> hi], req,
                       "max_discount_amount", DefaultLimit, FALSE, found, sorted)

\* pairs (min_count, max_count) that are no range of sizes: the minimum above
\* the maximum, or a negative count
InvalidPairs ==
    {p \in ((0 - MaxCount)..MaxCount) \X ((0 - MaxCount)..MaxCount) :
        p[1] > p[2] \/ p[1] < 0 \/ p[2] < 0}

\* a call with an invalid pair of counts for one service type and k lines of
\* every other type, with the declared defaults of the ranking arguments
SearchUnguarded ==
    /\ call.op = "none"
    /\ \E ty \in TypeSet, p \in InvalidPairs, k \in 0..1, req \in RequiredLists :
        LET min_counts == [t \in TypeSet |-> IF t = ty THEN p[1] ELSE k]
            max_counts == [t \in TypeSet |-> IF t = ty THEN p[2] ELSE k]
        IN  IF SearchRaises(min_counts, max_counts, req)
            THEN /\ call' = SearchCall(min_counts, max_counts, req,
                                       "max_discount_amount", DefaultLimit, FALSE)
                 /\ enumerated' = <<>>
                 /\ raised' = "ValueError"
                 /\ UNCHANGED <<result, tables, repeated, progress>>
            ELSE \E found \in {total_results(min_counts, max_counts, req)} :
                    \E sorted \in {SortResults(found, "max_discount_amount")} :
                        SearchStep(min_counts, max_counts, req, "max_discount_amount",
                                   DefaultLimit, FALSE, found, sorted)

Pricing ==
    /\ call.op = "none"
    /\ \E combined_product_id \in ProductIds :
        /\ call' = [op |-> "pricing", combined_product_id |-> combined_product_id]
        /\ enumerated' = <<>>
        /\ result' = calculate_combined_product_pricing(combined_product_id)
        /\ raised' = "none"
        /\ UNCHANGED <<tables, repeated, progress>>

\* a query without arguments
Report(op, value) ==
    /\ call.op = "none"
    /\ call' = [op |-> op]
    /\ enumerated' = <<>>
    /\ result' = value
    /\ raised' = "none"
    /\ UNCHANGED <<tables, repeated, progress>>

AllPricings == Report("all_pricings", get_all_combined_product_pricings)
LargestTotalDiscount ==
    Report("largest_total_discount", get_combined_product_with_largest_total_discount)
LowestFinalPrice ==
    Report("lowest_final_price", get_combined_product_with_lowest_final_price)
HighestBaseFee ==
    Report("highest_base_fee", get_combined_product_with_highest_base_fee)

Next ==
    \/ SearchExact \/ SearchRange \/ SearchUnguarded \/ Pricing
    \/ AllPricings \/ LargestTotalDiscount \/ LowestFinalPrice \/ HighestBaseFee

Spec == Init /\ [][Next]_vars

(***************************************************************************)
(* The last query issued once more, on the catalog as it stands.           *)
(***************************************************************************)
\* the value the query of a call record returns
ReturnOf(c) ==
    CASE c.op = "search" ->
            SearchReturn(SortResults(total_results(c.min_counts, c.max_counts,
                                                   c.required_plan_names),
                                     c.sort_by),
                         c.limit, c.only_products)
      [] c.op = "pricing" -> calculate_combined_product_pricing(c.combined_product_id)
      [] c.op = "all_pricings" -> get_all_combined_product_pricings
      [] c.op = "largest_total_discount" ->
            get_combined_product_with_largest_total_discount
      [] c.op = "lowest_final_price" -> get_combined_product_with_lowest_final_price
      [] c.op = "highest_base_fee" -> get_combined_product_with_highest_base_fee

Repeat ==
    /\ call.op # "none"
    /\ ~repeated
    /\ repeated' = TRUE
    /\ IF call.op = "search"
            /\ SearchRaises(call.min_counts, call.max_counts, call.required_plan_names)
        THEN raised' = "ValueError" /\ UNCHANGED result
        ELSE raised' = "none" /\ result' = ReturnOf(call)
    /\ UNCHANGED <<tables, call, enumerated, progress>>

\* every query, the search with the declared defaults of its ranking
\* arguments, followed by its repetition
NextRepeat ==
    \/ SearchRange \/ SearchUnguarded \/ Pricing
    \/ AllPricings \/ LargestTotalDiscount \/ LowestFinalPrice \/ HighestBaseFee
    \/ Repeat

SpecRepeat == Init /\ [][NextRepeat]_vars

(***************************************************************************)
(* search_combined_product_combinations query by query, next to a writer.  *)
(* The connection of the search runs its SELECTs outside a transaction, so *)
(* each of them sees what has been committed when it runs.  A step is one  *)
(* cursor.execute of the search together with the Python code up to the    *)
(* next one (the three reads at the head of a product iteration, none of   *)
(* which touches the table the writer writes, are taken together), or the  *)
(* required-plan check at the head of a combination's iteration.           *)
(***************************************************************************)
\* the result dict of one combination from the totals accumulated for it
PricedWith(cp, combo, total_discount, discount_type) ==
    LET total_fee == SumSeq([i \in 1..Len(combo) |-> combo[i].fee])
    IN  [combined_product_name |-> cp.name,
         plans |-> combo,
         total_base_fee |-> total_fee,
         total_discount_amount |-> total_discount,
         final_price |-> total_fee - total_discount,
         discount_type |-> discount_type,
         combined_product_id |-> cp.id]

InitInterleaved ==
    /\ Company = {[id |-> 1, name |-> "kt"]}
    /\ ServicePlan = StandardPlans
    /\ CombinedProduct = BothProducts
    /\ CombinedProductEligibility = SinglePlanEligibility
    /\ \E dc \in DiscountConfigs :
        /\ DiscountRow("d2", "P2") \in dc.Discount
        /\ Discount = dc.Discount
        /\ DiscountConditionByPlan = dc.DiscountConditionByPlan
    /\ DiscountConditionByLineCount \in LineConditionTables
    /\ call = [op |-> "none"]
    /\ enumerated = <<>>
    /\ result = None
    /\ raised = "none"
    /\ repeated = FALSE
    /\ progress = [pc |-> "idle"]

\* the position after the combination at the head of todo is done with
AfterCombination(p) ==
    IF Len(p.todo) > 1
        THEN [pc |-> "filter", products |-> p.products, index |-> p.index,
              discount_type |-> p.discount_type, todo |-> Tail(p.todo),
              plan |-> 1, total_discount |-> 0]
        ELSE [pc |-> "product", products |-> p.products, index |-> p.index + 1]

\* the call and its first query: SELECT id, name FROM CombinedProduct
SearchBegin ==
    /\ progress.pc = "idle"
    /\ \E lo \in 0..MaxCount, hi \in 0..MaxCount, req \in RequiredLists :
        /\ lo <= hi
        /\ call' = SearchCall([ty \in {"Internet"} |-> lo], [ty \in {"Internet"} |-> hi],
                              req, "max_discount_amount", DefaultLimit, FALSE)
    /\ progress' = [pc |-> "product", products |-> CombinedProduct, index |-> 1]
    /\ enumerated' = <<>>
    /\ UNCHANGED <<tables, result, raised, repeated>>

\* the head of a product iteration: discount type, eligible plans, the
\* product filter and all_combinations; after the last product the sort and
\* the return
SearchReadPlans ==
    /\ progress.pc = "product"
    /\ IF progress.index > Len(progress.products)
        THEN /\ result' = SearchReturn(SortResults(enumerated, call.sort_by),
                                       call.limit, call.only_products)
             /\ progress' = [pc |-> "done"]
        ELSE LET cp == progress.products[progress.index]
                 pbt == plans_by_type(cp.id)
                 todo == IF PassesProductFilter(cp.id, call.required_plan_names)
                         THEN all_combinations(pbt, call.min_counts, call.max_counts)
                         ELSE <<>>
             IN  /\ progress' =
                        IF todo = <<>>
                        THEN [progress EXCEPT !.index = progress.index + 1]
                        ELSE [pc |-> "filter", products |-> progress.products,
                              index |-> progress.index,
                              discount_type |-> classify_discount_type(cp.id),
                              todo |-> todo, plan |-> 1, total_discount |-> 0]
                 /\ UNCHANGED result
    /\ UNCHANGED <<tables, call, enumerated, raised, repeated>>

\* no check at the head of the iteration: every combination goes on to its
\* fee sum and its discount queries
SearchFilterAfterPricing ==
    /\ progress.pc = "filter"
    /\ progress' = [progress EXCEPT !.pc = "combo"]
    /\ UNCHANGED <<tables, call, enumerated, result, raised, repeated>>

\* the head of `for combo in all_combinations`: a combination without any of
\* the required names is passed over (continue), any other one goes on to
\* its fee sum and its discount queries
SearchFilterCombination ==
    /\ progress.pc = "filter"
    /\ progress' = IF PassesRequiredFilter(Head(progress.todo), call.required_plan_names)
                   THEN [progress EXCEPT !.pc = "combo"]
                   ELSE AfterCombination(progress)
    /\ UNCHANGED <<tables, call, enumerated, result, raised, repeated>>

\* the discount query of one plan of the combination at the head of todo;
\* after its last plan (or at once, for the empty combination) the result
\* dict is appended to total_results
SearchReadDiscount ==
    /\ progress.pc = "combo"
    /\ LET cp == progress.products[progress.index]
           combo == Head(progress.todo)
       IN  IF combo = <<>>
           THEN /\ enumerated' = Append(enumerated,
                                    PricedWith(cp, combo, 0, progress.discount_type))
                /\ progress' = AfterCombination(progress)
           ELSE LET total_discount == progress.total_discount
                                      + PlanDiscount(combo[progress.plan], cp.id)
                IN  IF progress.plan < Len(combo)
                    THEN /\ progress' = [progress EXCEPT
                                            !.plan = progress.plan + 1,
                                            !.total_discount = total_discount]
                         /\ UNCHANGED enumerated
                    ELSE /\ enumerated' = Append(enumerated,
                                    PricedWith(cp, combo, total_discount,
                                               progress.discount_type))
                         /\ progress' = AfterCombination(progress)
    /\ UNCHANGED <<tables, call, result, raised, repeated>>

\* upsert_discount(cursor, discount_data) and the commit of its caller: the
\* row of discount d2 is inserted, or updated with the product it belongs to
UpsertDiscount ==
    /\ \E combined_product_id \in ProductIds :
        Discount' = {d \in Discount : d.id # "d2"}
                    \cup {DiscountRow("d2", combined_product_id)}
    /\ UNCHANGED <<Company, ServicePlan, CombinedProduct, CombinedProductEligibility,
                   DiscountConditionByPlan, DiscountConditionByLineCount,
                   call, enumerated, result, raised, repeated, progress>>

NextInterleaved ==
    \/ SearchBegin \/ SearchReadPlans \/ SearchFilterCombination
    \/ SearchReadDiscount \/ UpsertDiscount

SpecInterleaved == InitInterleaved /\ [][NextInterleaved]_vars

(***************************************************************************)
(* The writers of table ServicePlan: upsert_service_plan (db_update_new.py),*)
(* upsert_service_plans (db_update.py) and upsert_service_plan_from_csv    *)
(* (db_update_mobile.py), all on combined_products.db.  Each derives the   *)
(* id of a plan from a text of its own.                                    *)
(***************************************************************************)
MaxPlans == 2        \* most rows table ServicePlan holds

CsvCompanyNames == {"KT", "kt", "SKT"}   \* column of the CSV, as written there
CompanyIds == {1, 2}
WrittenNames == {"X", "Y"}
WrittenTypes == {"Mobile", "Internet"}
Fees == {100, 200}

\* hashlib.sha256(text.encode("utf-8")).hexdigest(): the digest of a text,
\* different for different texts
hash_id(text) == <<"sha256", text>>

\* str.lower() on the company names of the CSV
lower(name) ==
    CASE name = "KT" -> "kt"
      [] name = "SKT" -> "skt"
      [] OTHER -> name

\* INSERT ... ON CONFLICT(id) DO UPDATE SET <cols>=excluded.<cols>: the row
\* with the id keeps its place and takes the listed columns of the new row
InsertOrUpdate(table, row, cols) ==
    IF \E i \in 1..Len(table) : table[i].id = row.id
    THEN [i \in 1..Len(table) |->
            IF table[i].id = row.id
            THEN [c \in DOMAIN row |-> IF c \in cols THEN row[c] ELSE table[i][c]]
            ELSE table[i]]
    ELSE Append(table, row)

\* INSERT OR REPLACE: the row with the id is deleted, the new row is added
InsertOrReplace(table, row) ==
    Append(SelectSeq(table, LAMBDA r : r.id # row.id), row)

\* upsert_service_plan(cursor, company_id, service_type, name, fee)
upsert_service_plan ==
    /\ \E company_id \in CompanyIds, service_type \in WrittenTypes,
          name \in WrittenNames, fee \in Fees :
        LET plan_id == hash_id(ToString(company_id) \o "_" \o service_type
                               \o "_" \o name)
        IN  ServicePlan' = InsertOrUpdate(ServicePlan,
                                [id |-> plan_id, company_id |-> company_id,
                                 name |-> name, service_type |-> service_type,
                                 fee |-> fee],
                                {"name", "service_type", "fee"})
    /\ Len(ServicePlan') <= MaxPlans
    /\ UNCHANGED <<Company, CombinedProduct, CombinedProductEligibility, Discount,
                   DiscountConditionByPlan, DiscountConditionByLineCount,
                   call, enumerated, result, raised, repeated, progress>>

RECURSIVE UpsertPlans(_, _, _)
\* for service_type, name, fee in plans: ... ON CONFLICT(id) DO UPDATE SET fee
UpsertPlans(table, company_id, plans) ==
    IF plans = <<>> THEN table
    ELSE LET plan == Head(plans)
             plan_id == hash_id(plan.service_type \o "-" \o plan.name)
         IN  UpsertPlans(InsertOrUpdate(table,
                            [id |-> plan_id, company_id |-> company_id,
                             name |-> plan.name, service_type |-> plan.service_type,
                             fee |-> plan.fee],
                            {"fee"}),
                         company_id, Tail(plans))

PlanTuples == [service_type : WrittenTypes, name : WrittenNames, fee : Fees]

\* upsert_service_plans(cursor, company_id, plans), with one or two plans
upsert_service_plans ==
    /\ \E company_id \in CompanyIds, first \in PlanTuples,
          more \in {<<>>} \cup {<<p>> : p \in PlanTuples} :
        ServicePlan' = UpsertPlans(ServicePlan, company_id, <<first>> \o more)
    /\ Len(ServicePlan') <= MaxPlans
    /\ UNCHANGED <<Company, CombinedProduct, CombinedProductEligibility, Discount,
                   DiscountConditionByPlan, DiscountConditionByLineCount,
                   call, enumerated, result, raised, repeated, progress>>

\* get_company_id(conn, name): the id of the company of that name, which is
\* inserted under the next AUTOINCREMENT id when there is none
CompanyAfter(name) ==
    IF \E c \in Company : c.name = name THEN Company
    ELSE Company \cup {[id |-> 1 + Cardinality(Company), name |-> name]}

get_company_id(name) == (CHOOSE c \in CompanyAfter(name) : c.name = name).id

\* upsert_service_plan_from_csv(csv_path, db_name) for a file of one row; the
\* fee is the number parse_fee reads from the row
upsert_service_plan_from_csv ==
    /\ \E csv_company \in CsvCompanyNames, product_name \in WrittenNames, fee \in Fees :
        LET company_name == lower(csv_company)
            plan_id == hash_id(company_name \o "-" \o product_name)
        IN  /\ Company' = CompanyAfter(company_name)
            /\ ServicePlan' = InsertOrReplace(ServicePlan,
                                [id |-> plan_id,
                                 company_id |-> get_company_id(company_name),
                                 name |-> product_name, service_type |-> "Mobile",
                                 fee |-> fee])
    /\ Len(ServicePlan') <= MaxPlans
    /\ UNCHANGED <<CombinedProduct, CombinedProductEligibility, Discount,
                   DiscountConditionByPlan, DiscountConditionByLineCount,
                   call, enumerated, result, raised, repeated, progress>>

\* a database with the schema and company kt, before any plan is written
InitPlanWrites ==
    /\ Company = {[id |-> 1, name |-> "kt"]}
    /\ ServicePlan = <<>>
    /\ CombinedProduct = <<>>
    /\ CombinedProductEligibility = {}
    /\ Discount = {}
    /\ DiscountConditionByPlan = {}
    /\ DiscountConditionByLineCount = {}
    /\ call = [op |-> "none"]
    /\ enumerated = <<>>
    /\ result = None
    /\ raised = "none"
    /\ repeated = FALSE
    /\ progress = [pc |-> "idle"]

NextPlanWrites ==
    upsert_service_plan \/ upsert_service_plans \/ upsert_service_plan_from_csv

SpecPlanWrites == InitPlanWrites /\ [][NextPlanWrites]_vars

(***************************************************************************)
(* Properties.                                                             *)
(***************************************************************************)
IsSearch == call.op = "search" /\ raised = "none"
IsPricing == call.op = "pricing"

\* the arithmetic identity of one priced record
PriceIdentity(r) == r.final_price = r.total_base_fee - r.total_discount_amount

\* C1: every result of search_combined_product_combinations, and every
\* non-None result of calculate_combined_product_pricing, has
\* final_price = total_base_fee - total_discount_amount, with no floor at 0.
C1_FinalPriceIsFeeMinusDiscount ==
    /\ IsSearch => \A i \in 1..Len(result) : PriceIdentity(result[i])
    /\ (IsPricing /\ result # None) => PriceIdentity(result)

\* a returned bundle whose discounts exceed its fees: the price is negative
C1_Witness ==
    /\ IsSearch
    /\ \E i \in 1..Len(result) :
        /\ result[i].total_discount_amount > result[i].total_base_fee
        /\ result[i].final_price < 0

\* dict.get(t, 0) on the arguments of the last search
MinCount(ty) == DictGet(call.min_counts, ty, 0)
MaxCountOf(ty) == DictGet(call.max_counts, ty, 0)

\* number of plans of a service type that are eligible for a product
EligibleCount(combined_product_id, ty) ==
    Cardinality({sp \in Range(ServicePlan) :
        /\ sp.service_type = ty
        /\ \E cpe \in CombinedProductEligibility :
            /\ cpe.combined_product_id = combined_product_id
            /\ cpe.service_plan_id = sp.id})

RECURSIVE Binomial(_, _)
Binomial(n, k) ==
    IF k = 0 THEN 1
    ELSE IF n <= 0 THEN 0
    ELSE Binomial(n - 1, k - 1) + Binomial(n - 1, k)

\* C(n + k - 1, k): the multisets of size k over n plans
Multisets(n, k) == Binomial(n + k - 1, k)

PlansOfType(bundle, ty) ==
    Cardinality({i \in 1..Len(bundle.plans) : bundle.plans[i].service_type = ty})

BundlesOf(list, combined_product_id) ==
    {i \in 1..Len(list) : list[i].combined_product_id = combined_product_id}

ExactCounts == \A ty \in TypeSet : MinCount(ty) = MaxCountOf(ty)

\* the bundles of a list hold exactly k_t plans of each type t, and each
\* product has prod_t C(n_t + k_t - 1, k_t) of them
ExactMultisets(list) ==
    /\ \A i \in 1..Len(list) : \A ty \in TypeSet :
            PlansOfType(list[i], ty) = MinCount(ty)
    /\ \A cp \in Range(CombinedProduct) :
            Cardinality(BundlesOf(list, cp.id)) =
                Multisets(EligibleCount(cp.id, "Mobile"), MinCount("Mobile"))
                * Multisets(EligibleCount(cp.id, "Internet"), MinCount("Internet"))
                * Multisets(EligibleCount(cp.id, "TV"), MinCount("TV"))

\* C2: with min_counts[t] = max_counts[t] = k_t for every type and no required
\* plan names, every enumerated bundle holds exactly k_t plans of each type t
\* and each product has prod_t C(n_t + k_t - 1, k_t) bundles; the returned
\* list has the same property when the limit does not truncate it
\* (all-combinations mode).
C2_ExactCountsEnumerateMultisets ==
    (IsSearch /\ ExactCounts /\ call.required_plan_names = <<>>)
    => /\ ExactMultisets(enumerated)
       /\ (~call.only_products /\ call.limit >= Len(enumerated))
            => ExactMultisets(result)

\* two lines over two eligible Internet plans: three bundles, one of them
\* holding the same plan twice
C2_Witness ==
    /\ IsSearch /\ ExactCounts /\ call.required_plan_names = <<>>
    /\ ~call.only_products /\ call.limit >= Len(enumerated)
    /\ MinCount("Internet") = 2
    /\ \E cp \in Range(CombinedProduct) :
        /\ EligibleCount(cp.id, "Internet") = 2
        /\ Cardinality(BundlesOf(result, cp.id)) = 3
        /\ \E i \in BundlesOf(result, cp.id) :
            \E p, q \in 1..Len(result[i].plans) :
                p # q /\ result[i].plans[p] = result[i].plans[q]

ZeroCount(ty) == MinCount(ty) = 0 /\ MaxCountOf(ty) = 0

\* some size in range(min, max + 1) has a multiset over the eligible plans
HasCombination(combined_product_id, ty) ==
    \E r \in MinCount(ty)..MaxCountOf(ty) :
        r = 0 \/ EligibleCount(combined_product_id, ty) > 0

\* C3: a service type whose min and max count are both 0, or that is absent
\* from both dicts, has no plan in any returned bundle, and it does not empty
\* the cross-product: a product whose other types each admit a multiset
\* still enumerates a bundle.
C3_ZeroCountTypeIsAbsent ==
    IsSearch =>
        \A ty \in TypeSet : ZeroCount(ty) =>
            /\ \A i \in 1..Len(result) : PlansOfType(result[i], ty) = 0
            /\ \A cp \in Range(CombinedProduct) :
                (/\ call.required_plan_names = <<>>
                 /\ \A other \in TypeSet \ {ty} : HasCombination(cp.id, other))
                => BundlesOf(enumerated, cp.id) # {}

\* a type left out of both dicts, with a plan eligible for a product whose
\* bundle is returned without it
C3_Witness ==
    /\ IsSearch
    /\ \E ty \in TypeSet :
        /\ ty \notin DOMAIN call.min_counts /\ ty \notin DOMAIN call.max_counts
        /\ \E i \in 1..Len(result) :
            /\ EligibleCount(result[i].combined_product_id, ty) > 0
            /\ Len(result[i].plans) > 0
            /\ PlansOfType(result[i], ty) = 0

\* the key the list is ranked by, and whether larger comes first
SortField == IF call.sort_by = "max_discount_amount" THEN "total_discount_amount"
             ELSE IF call.sort_by = "min_final_price" THEN "final_price"
             ELSE "total_base_fee"
Descending == call.sort_by # "min_final_price"
RankedCall == call.sort_by \in {"max_discount_amount", "min_final_price",
                                "max_total_base_fee"}

\* x ranks strictly ahead of y under the selected key
Ahead(x, y) == IF Descending THEN x[SortField] > y[SortField]
                             ELSE x[SortField] < y[SortField]

Smaller(a, b) == IF a < b THEN a ELSE b

\* C4: in all-combinations mode with limit >= 0 the returned list is the first
\* `limit` elements of all priced bundles in the order of the selected key;
\* with sort_by = min_final_price and limit >= 1 its first element has the
\* least final_price of all enumerated bundles.
C4_TopLimitInKeyOrder ==
    (IsSearch /\ RankedCall /\ ~call.only_products /\ call.limit >= 0)
    => /\ Len(result) = Smaller(call.limit, Len(enumerated))
       /\ Range(result) \subseteq Range(enumerated)
       /\ \A i, j \in 1..Len(result) : i < j =>
            /\ result[i] # result[j]
            /\ ~Ahead(result[j], result[i])
       /\ \A e \in Range(enumerated) \ Range(result) :
            \A i \in 1..Len(result) : ~Ahead(e, result[i])
       /\ (call.sort_by = "min_final_price" /\ call.limit >= 1
            /\ enumerated # <<>>)
          => \A e \in Range(enumerated) : result[1].final_price <= e.final_price

\* a ranked call whose limit cuts the list and whose best bundle was not the
\* first one enumerated
C4_Witness ==
    /\ IsSearch /\ RankedCall /\ ~call.only_products
    /\ call.sort_by = "min_final_price"
    /\ call.limit >= 1 /\ call.limit < Len(enumerated)
    /\ result[1] # enumerated[1]
    /\ \E e \in Range(enumerated) : e.final_price > result[1].final_price

\* position of a bundle in the enumeration (bundles are pairwise distinct)
EnumIndex(r) == CHOOSE k \in 1..Len(enumerated) : enumerated[k] = r

\* C5: under each of the three sort keys, two bundles with an equal key keep
\* the relative order in which they were enumerated.
C5_SortIsStable ==
    (IsSearch /\ RankedCall /\ ~call.only_products)
    => \A i, j \in 1..Len(result) :
        (i < j /\ result[i][SortField] = result[j][SortField])
        => EnumIndex(result[i]) < EnumIndex(result[j])

\* a descending sort that moved a bundle forward and returned two bundles
\* with an equal key
C5_Witness ==
    /\ IsSearch /\ RankedCall /\ ~call.only_products /\ Descending
    /\ \E i, j \in 1..Len(result) :
        /\ i < j
        /\ result[i][SortField] = result[j][SortField]
        /\ EnumIndex(result[i]) < EnumIndex(result[j])
    /\ \E i \in 1..Len(result) : EnumIndex(result[i]) > i

DistinctProducts ==
    \A i, j \in 1..Len(result) :
        i # j => result[i].combined_product_id # result[j].combined_product_id

\* C6 as stated: with only_products = True the returned list never holds two
\* results of one product and its length is at most limit.
C6_AsStated ==
    (IsSearch /\ call.only_products)
    => DistinctProducts /\ Len(result) <= call.limit

\* C6, amended: with only_products = True the returned list never holds two
\* results of one product, and for limit >= 0 its length is at most limit.
C6_DistinctProductsWithinLimit ==
    (IsSearch /\ call.only_products)
    => /\ DistinctProducts
       /\ call.limit >= 0 => Len(result) <= call.limit

\* two products returned, one of which had several bundles enumerated
C6_Witness ==
    /\ IsSearch /\ call.only_products /\ call.limit >= 0
    /\ Len(result) = 2
    /\ \E i \in 1..Len(result) :
        Cardinality(BundlesOf(enumerated, result[i].combined_product_id)) > 1

\* the list after the sort
SortedList == SortResults(enumerated, call.sort_by)

\* C7: with only_products = True the result kept for a product is the first
\* of its bundles in the sorted order, and the kept results are in the order
\* of the sort key.
C7_FirstOccurrenceWins ==
    (IsSearch /\ call.only_products /\ call.limit >= 0)
    => /\ \A i \in 1..Len(result) :
            \E k \in 1..Len(SortedList) :
                /\ SortedList[k] = result[i]
                /\ \A m \in 1..(k - 1) :
                    SortedList[m].combined_product_id # result[i].combined_product_id
       /\ RankedCall =>
            \A i, j \in 1..Len(result) : i < j => ~Ahead(result[j], result[i])

\* what the override of one DiscountConditionByPlan row is worth for a plan
OverrideAmount(row, fee) ==
    IF row.override_unit = "%"
        THEN (fee * row.override_discount_value[1]) \div 100
        ELSE row.override_discount_value[1]

\* rows of discounts of the product that name the plan
MatchingRows(combined_product_id, service_plan_id) ==
    {row \in DiscountConditionByPlan :
        /\ row.service_plan_id = service_plan_id
        /\ \E d \in Discount : /\ d.id = row.discount_id
                               /\ d.combined_product_id = combined_product_id}

\* every plan of the bundle has exactly one matching row, with a value
SingleOverrides(bundle) ==
    \A i \in 1..Len(bundle.plans) :
        LET rows == MatchingRows(bundle.combined_product_id, bundle.plans[i].id)
        IN  Cardinality(rows) = 1 /\ \A row \in rows : row.override_discount_value # NULL

ExpectedDiscount(bundle) ==
    SumSeq([i \in 1..Len(bundle.plans) |->
        LET row == CHOOSE r \in MatchingRows(bundle.combined_product_id,
                                             bundle.plans[i].id) : TRUE
        IN  OverrideAmount(row, bundle.plans[i].fee)])

\* C8: a plan whose matching DiscountConditionByPlan row has a percentage
\* unit adds floor(plan_fee * override_value / 100) to the discount total of
\* the bundle; with a currency unit it adds override_value itself.
C8_OverrideUnitIsHonoured ==
    IsSearch =>
        \A i \in 1..Len(result) :
            SingleOverrides(result[i])
            => result[i].total_discount_amount = ExpectedDiscount(result[i])

PlanNames(bundle) == {bundle.plans[i].name : i \in 1..Len(bundle.plans)}

\* the scenario: product P1 alone with Internet plans A (30000) and B (20000)
\* and Mobile plan C (40000), one discount overriding A by 5000 and B by 10 %
ScenarioCatalog ==
    /\ CombinedProduct = ScenarioProducts
    /\ {cpe.service_plan_id : cpe \in {e \in CombinedProductEligibility :
            e.combined_product_id = "P1"}} = {"a", "b", "c"}
    /\ Discount = ScenarioDiscounts.Discount
    /\ DiscountConditionByPlan = ScenarioDiscounts.DiscountConditionByPlan

\* one Mobile and one Internet line, no TV, not truncated, all combinations
ScenarioCounts ==
    /\ MinCount("Mobile") = 1 /\ MaxCountOf("Mobile") = 1
    /\ MinCount("Internet") = 1 /\ MaxCountOf("Internet") = 1
    /\ MinCount("TV") = 0 /\ MaxCountOf("TV") = 0
    /\ call.limit >= 2 /\ ~call.only_products

\* C9: in the scenario, a search by min_final_price returns exactly two
\* bundles, (B,C) with final_price 62000 first and (A,C) with 65000 second.
C9_ScenarioPrices ==
    (/\ IsSearch /\ ScenarioCatalog /\ ScenarioCounts
     /\ call.required_plan_names = <<>>
     /\ call.sort_by = "min_final_price")
    => /\ Len(result) = 2
       /\ PlanNames(result[1]) = {"B", "C"} /\ result[1].final_price = 62000
       /\ PlanNames(result[2]) = {"A", "C"} /\ result[2].final_price = 65000

Occurrences(bundle, id) ==
    Cardinality({i \in 1..Len(bundle.plans) : bundle.plans[i].id = id})

RECURSIVE SumOver(_, _)
\* the sum of f[x] over the elements x of a set S
SumOver(S, f) ==
    IF S = {} THEN 0
    ELSE LET x == CHOOSE y \in S : TRUE IN f[x] + SumOver(S \ {x}, f)

PlanOf(id) == CHOOSE sp \in Range(ServicePlan) : sp.id = id

ProductDiscounts(combined_product_id) ==
    {d \in Discount : d.combined_product_id = combined_product_id}
ConditionRows(d, service_plan_id) ==
    {row \in DiscountConditionByPlan :
        row.discount_id = d.id /\ row.service_plan_id = service_plan_id}

\* the amount one discount grants one plan when a NULL override and a missing
\* row both fall back to the nominal discount_value (units left aside)
NominalAmount(d, service_plan_id) ==
    LET rows == ConditionRows(d, service_plan_id)
    IN  IF rows = {} THEN d.discount_value
        ELSE LET row == CHOOSE r \in rows : TRUE
             IN  IF row.override_discount_value = NULL THEN d.discount_value
                 ELSE row.override_discount_value[1]

\* the total of NominalAmount over the plan occurrences ids[1..n] of a product
NominalTotal(combined_product_id, ids) ==
    LET ds == ProductDiscounts(combined_product_id)
    IN  SumSeq([k \in 1..Len(ids) |->
            SumOver(ds, [d \in ds |-> NominalAmount(d, ids[k])])])

\* every discount of the product has a row for every plan, in currency or NULL
EveryPairHasRow(combined_product_id, ids) ==
    \A k \in 1..Len(ids) : \A d \in ProductDiscounts(combined_product_id) :
        /\ ConditionRows(d, ids[k]) # {}
        /\ \A row \in ConditionRows(d, ids[k]) :
            row.override_unit # "%" \/ row.override_discount_value = NULL

\* every row that exists for a plan of the list carries a currency value
EveryRowHasValue(combined_product_id, ids) ==
    \A k \in 1..Len(ids) : \A d \in ProductDiscounts(combined_product_id) :
        \A row \in ConditionRows(d, ids[k]) :
            row.override_unit # "%" /\ row.override_discount_value # NULL

BundleIds(bundle) == [k \in 1..Len(bundle.plans) |-> bundle.plans[k].id]
AssociatedIds(pricing) ==
    [k \in 1..Len(pricing.associated_plans) |->
        PlanIdByName(pricing.associated_plans[k].name)[1]]

\* C12: a matching DiscountConditionByPlan row whose override_discount_value
\* is NULL applies the nominal discount_value of its Discount, in
\* search_combined_product_combinations and in
\* calculate_combined_product_pricing.
C12_NullOverrideFallsBack ==
    /\ IsSearch =>
        \A i \in 1..Len(result) :
            EveryPairHasRow(result[i].combined_product_id, BundleIds(result[i]))
            => result[i].total_discount_amount =
                NominalTotal(result[i].combined_product_id, BundleIds(result[i]))
    /\ (/\ IsPricing /\ result # None
            /\ EveryPairHasRow(result.combined_product_id, AssociatedIds(result)))
            => result.total_discount_amount =
                NominalTotal(result.combined_product_id, AssociatedIds(result))

\* calculate_combined_product_pricing alone: a NULL override of a matching
\* row applies the nominal discount_value
PricingFallsBackOnNull ==
    (/\ IsPricing /\ result # None
        /\ EveryPairHasRow(result.combined_product_id, AssociatedIds(result)))
        => result.total_discount_amount =
            NominalTotal(result.combined_product_id, AssociatedIds(result))

\* C13: a plan for which a Discount of the product has no
\* DiscountConditionByPlan row is granted the nominal discount_value of that
\* Discount, in both functions.
C13_MissingRowFallsBack ==
    /\ IsSearch =>
        \A i \in 1..Len(result) :
            EveryRowHasValue(result[i].combined_product_id, BundleIds(result[i]))
            => result[i].total_discount_amount =
                NominalTotal(result[i].combined_product_id, BundleIds(result[i]))
    /\ (/\ IsPricing /\ result # None
            /\ EveryRowHasValue(result.combined_product_id, AssociatedIds(result)))
            => result.total_discount_amount =
                NominalTotal(result.combined_product_id, AssociatedIds(result))

IsReport == call.op \in {"largest_total_discount", "lowest_final_price", "highest_base_fee"}
IsSummary(value) == "message" \in DOMAIN value

\* the pricings of the products of the catalog that are not None
Priced ==
    {calculate_combined_product_pricing(cp.id) : cp \in Range(CombinedProduct)} \ {None}

\* C14: calculate_combined_product_pricing with an id that is not in
\* CombinedProduct returns None and raises nothing;
\* get_all_combined_product_pricings leaves out every product whose pricing
\* is None and holds exactly one entry for every other product.
C14_NotFoundIsNone ==
    /\ (call.op = "pricing"
            /\ \A cp \in Range(CombinedProduct) : cp.id # call.combined_product_id)
        => result = None /\ raised = "none"
    /\ call.op = "all_pricings"
        => /\ raised = "none"
           /\ \A i \in 1..Len(result) : result[i] # None
           /\ Range(result) = Priced
           /\ Len(result) = Cardinality(Priced)

\* all pricings of a catalog with two products, one of which has no company:
\* its pricing is None and the list holds the other product alone
C14_Witness ==
    /\ call.op = "all_pricings"
    /\ Len(CombinedProduct) = 2
    /\ \E cp \in Range(CombinedProduct) :
            calculate_combined_product_pricing(cp.id) = None
    /\ Len(result) = 1

LowestIsLeastPositive ==
    (call.op = "lowest_final_price" /\ IsSummary(result))
    => /\ result.calculated_pricing_details \in Priced
       /\ result.final_price = result.calculated_pricing_details.final_price
       /\ result.final_price > 0
       /\ \A p \in Priced : p.final_price > 0 => result.final_price <= p.final_price

\* C16 as stated: get_combined_product_with_lowest_final_price returns a
\* product whose final_price is positive and least among the positive ones,
\* and the no-valid-price message when no product has a positive final_price.
C16_AsStated ==
    /\ LowestIsLeastPositive
    /\ (call.op = "lowest_final_price" /\ \A p \in Priced : p.final_price <= 0)
        => result = NoValidPriceMessage

\* C16, amended: the returned product has a positive final_price, least among
\* the positive ones; when products are priced and none of the prices is
\* positive the no-valid-price message is returned, and when no product is
\* priced the no-data message.
C16_LowestPositivePrice ==
    /\ LowestIsLeastPositive
    /\ call.op = "lowest_final_price"
        => /\ (\E p \in Priced : p.final_price > 0) => IsSummary(result)
           /\ (Priced # {} /\ \A p \in Priced : p.final_price <= 0)
                => result = NoValidPriceMessage
           /\ Priced = {} => result = NoProductsMessage

\* a product priced below zero is passed over for a dearer one
C16_Witness ==
    /\ call.op = "lowest_final_price"
    /\ IsSummary(result)
    /\ \E p \in Priced : p.final_price < 0 /\ p.final_price < result.final_price

\* the counts of a service type are no range of sizes
InvalidCounts(ty) ==
    MinCount(ty) > MaxCountOf(ty) \/ MinCount(ty) < 0 \/ MaxCountOf(ty) < 0

\* range(min_count, max_count + 1) of the type starts below zero
NegativeRange(ty) == MinCount(ty) < 0 /\ MinCount(ty) <= MaxCountOf(ty)

\* the names of the plans of the three service types eligible for a product
EligibleNames(combined_product_id) ==
    {sp.name : sp \in {x \in Range(ServicePlan) :
        /\ x.service_type \in TypeSet
        /\ \E cpe \in CombinedProductEligibility :
            /\ cpe.combined_product_id = combined_product_id
            /\ cpe.service_plan_id = x.id}}

\* some product is enumerated: it has every required plan name
SomeProductEnumerated ==
    \E cp \in Range(CombinedProduct) :
        Range(call.required_plan_names) \subseteq EligibleNames(cp.id)

\* C17 as stated: with min_count > max_count or a negative count for a
\* service type the search raises nothing and produces no bundle.
C17_AsStated ==
    (call.op = "search" /\ \E ty \in TypeSet : InvalidCounts(ty))
    => raised = "none" /\ enumerated = <<>> /\ result = <<>>

\* C17, amended: with invalid counts for a service type the search produces
\* no bundle and raises nothing, unless the range of sizes of some type
\* starts below zero and a product is enumerated: then, and only then, it
\* ends with ValueError.
C17_InvalidCounts ==
    call.op = "search" =>
        /\ raised = "ValueError"
            <=> (SomeProductEnumerated /\ \E ty \in TypeSet : NegativeRange(ty))
        /\ raised \in {"none", "ValueError"}
        /\ (raised = "none" /\ \E ty \in TypeSet : InvalidCounts(ty))
            => enumerated = <<>> /\ result = <<>>

\* a minimum above the maximum for a type of which a product has plans, all
\* other types at zero: nothing raised, nothing returned
C17_Witness ==
    /\ call.op = "search" /\ raised = "none"
    /\ result = <<>>
    /\ \E ty \in TypeSet :
        /\ MinCount(ty) > MaxCountOf(ty) /\ MaxCountOf(ty) >= 1
        /\ \A other \in TypeSet \ {ty} : ZeroCount(other)
        /\ \E cp \in Range(CombinedProduct) : EligibleCount(cp.id, ty) > 0
    /\ call.required_plan_names = <<>>

\* C18: a product without an eligible plan of a service type whose min_count
\* is above zero has no bundle in the search and nothing is raised; a product
\* that has plans for every type asked for keeps its bundles.
C18_TypeWithoutPlansExcludesProduct ==
    (call.op = "search" /\ \A ty \in TypeSet : ~InvalidCounts(ty))
    => /\ raised = "none"
       /\ \A cp \in Range(CombinedProduct) :
            /\ (\E ty \in TypeSet : MinCount(ty) > 0 /\ EligibleCount(cp.id, ty) = 0)
                => BundlesOf(enumerated, cp.id) = {}
            /\ (/\ call.required_plan_names = <<>>
                /\ \A ty \in TypeSet : HasCombination(cp.id, ty))
                => BundlesOf(enumerated, cp.id) # {}

\* one TV line asked for: P1 has no TV plan and no bundle, P2 is returned
C18_Witness ==
    /\ IsSearch
    /\ MinCount("TV") > 0
    /\ \E cp \in Range(CombinedProduct) :
        /\ EligibleCount(cp.id, "TV") = 0
        /\ BundlesOf(enumerated, cp.id) = {}
    /\ \E i \in 1..Len(result) :
        EligibleCount(result[i].combined_product_id, "TV") > 0

OnlyPlan(bundle, id) ==
    /\ Len(bundle.plans) > 0
    /\ \A k \in 1..Len(bundle.plans) : bundle.plans[k].id = id

\* C20: no two bundles of one result list price the same plan of the same
\* product with different override values, whatever is written to the
\* catalog while the search runs (the reads of a product are complete before
\* its first bundle is priced).
C20_OneOverridePerPlan ==
    progress.pc = "done" =>
        \A i, j \in 1..Len(result) : \A id \in PlanIdSet :
            (/\ result[i].combined_product_id = result[j].combined_product_id
             /\ OnlyPlan(result[i], id) /\ OnlyPlan(result[j], id))
            => result[i].total_discount_amount * Len(result[j].plans)
                = result[j].total_discount_amount * Len(result[i].plans)

(***************************************************************************)
(* C21: the key of a plan.                                                 *)
(***************************************************************************)
\* C21: after any sequence of upsert_service_plan, upsert_service_plans and
\* upsert_service_plan_from_csv no two rows of ServicePlan share the same
\* (company, service type, name).
C21_PlanKeyIsUnique ==
    \A i, j \in 1..Len(ServicePlan) :
        (/\ ServicePlan[i].company_id = ServicePlan[j].company_id
         /\ ServicePlan[i].service_type = ServicePlan[j].service_type
         /\ ServicePlan[i].name = ServicePlan[j].name) => i = j

(***************************************************************************)
(* C22: the discount type of a result.                                     *)
(***************************************************************************)
\* the class of the conditions that the discounts of a product carry
ConditionClass(combined_product_id) ==
    LET own == {d.id : d \in {x \in Discount :
                                x.combined_product_id = combined_product_id}}
        has_plan == \E r \in DiscountConditionByPlan : r.discount_id \in own
        has_line == \E r \in DiscountConditionByLineCount : r.discount_id \in own
    IN  IF has_plan /\ has_line THEN "mixed"
        ELSE IF has_plan THEN "plan_based"
        ELSE IF has_line THEN "line_based"
        ELSE "simple"

\* C22: the discount_type of every search result of product P is the class
\* of the conditions of P's discounts: mixed, plan_based, line_based or
\* simple.
C22_DiscountTypeClassifiesProduct ==
    IsSearch =>
        \A i \in 1..Len(result) :
            result[i].discount_type = ConditionClass(result[i].combined_product_id)

(***************************************************************************)
(* C23: the stored line bounds.                                            *)
(***************************************************************************)
\* the stored bound of a product on the lines of a service type
StoredMaxLines(cp, ty) ==
    CASE ty = "Mobile" -> cp.max_mobile_lines
      [] ty = "Internet" -> cp.max_internet_lines
      [] ty = "TV" -> cp.max_iptv_lines

\* the bundle keeps the max_lines of the eligibility of each of its plans and
\* the stored bounds of its product
WithinStoredBounds(bundle) ==
    /\ \A cpe \in CombinedProductEligibility :
            cpe.combined_product_id = bundle.combined_product_id
                => Occurrences(bundle, cpe.service_plan_id) <= cpe.max_lines
    /\ \A cp \in Range(CombinedProduct), ty \in TypeSet :
            (cp.id = bundle.combined_product_id /\ StoredMaxLines(cp, ty) # NULL)
                => PlansOfType(bundle, ty) <= StoredMaxLines(cp, ty)[1]

\* C23: no returned bundle of product P holds a plan more often than the
\* max_lines of its eligibility for P, nor more lines of a service type than
\* P's stored maximum for the type, whatever max_counts is passed.
C23_StoredBoundsAreKept ==
    IsSearch => \A i \in 1..Len(result) : WithinStoredBounds(result[i])

(***************************************************************************)
(* C24: the required-plan filter comes before the pricing.                 *)
(***************************************************************************)
\* a list of plans holds a plan with one of the required names
HoldsRequiredName(plans) ==
    \E k \in 1..Len(plans) : plans[k].name \in Range(call.required_plan_names)

BundlesWithRequiredName ==
    UNION {{<<cp.id, combo>> :
                combo \in {c \in Range(all_combinations(plans_by_type(cp.id),
                                            call.min_counts, call.max_counts)) :
                              HoldsRequiredName(c)}} :
            cp \in Range(CombinedProduct)}

\* the call names required plans and its limit cuts nothing off
UntruncatedRequiredSearch ==
    /\ IsSearch
    /\ ~NegativeSize(call.min_counts, call.max_counts)
    /\ call.required_plan_names # <<>>
    /\ ~call.only_products
    /\ call.limit >= Cardinality(BundlesWithRequiredName)

\* C25: with required names and a limit that cuts nothing off, every bundle
\* that holds at least one of the required names is returned, also when
\* another required name is no eligible plan of the bundle's product.
C25_OneRequiredNameSuffices ==
    UntruncatedRequiredSearch =>
        \A b \in BundlesWithRequiredName :
            \E i \in 1..Len(result) :
                /\ result[i].combined_product_id = b[1]
                /\ result[i].plans = b[2]

(***************************************************************************)
(* C26: one representative plan per service type.                          *)
(***************************************************************************)
\* the eligible plans of a product that have a service type
EligibleOfType(combined_product_id, ty) ==
    {row \in Range(EligibleRows(combined_product_id)) : row.service_type = ty}

\* the positions of the associated plans of a service type
AssociatedOfType(pricing, ty) ==
    {i \in 1..Len(pricing.associated_plans) :
        pricing.associated_plans[i].service_type = ty}

\* the highest fee among the eligible plans of a type (0 when there is none)
HighestFee(combined_product_id, ty) ==
    LET fees == {row.fee : row \in EligibleOfType(combined_product_id, ty)}
    IN  IF fees = {} THEN 0 ELSE CHOOSE f \in fees : \A g \in fees : g <= f

\* C26: calculate_combined_product_pricing prices one line per service: for
\* each service type with eligible plans associated_plans holds exactly one
\* plan, the eligible plan with the highest fee, and total_base_fee is the
\* sum of the fees of these representatives.
C26_OneRepresentativePerType ==
    (IsPricing /\ result # None) =>
        /\ \A ty \in TypeSet :
            EligibleOfType(call.combined_product_id, ty) # {} =>
                /\ Cardinality(AssociatedOfType(result, ty)) = 1
                /\ \A i \in AssociatedOfType(result, ty) :
                        result.associated_plans[i].fee
                            = HighestFee(call.combined_product_id, ty)
        /\ result.total_base_fee
            = SumOver(TypeSet, [ty \in TypeSet |->
                                    HighestFee(call.combined_product_id, ty)])

(***************************************************************************)
(* C27: what a bundle is made of.                                          *)
(***************************************************************************)
\* the plan of a bundle is a row of ServicePlan that is eligible for the product
EligiblePlanOf(plan, combined_product_id) ==
    /\ \E sp \in Range(ServicePlan) :
            /\ sp.id = plan.id /\ sp.name = plan.name
            /\ sp.fee = plan.fee /\ sp.service_type = plan.service_type
    /\ \E cpe \in CombinedProductEligibility :
            /\ cpe.combined_product_id = combined_product_id
            /\ cpe.service_plan_id = plan.id

\* C27: every plan of a bundle returned for product P is eligible for P and
\* is a Mobile, Internet or TV plan, and the bundle holds between
\* min_counts[t] and max_counts[t] plans of every service type t; plans of
\* two products are never mixed.
C27_BundleOfEligiblePlansWithinCounts ==
    IsSearch =>
        \A i \in 1..Len(result) :
            /\ \A k \in 1..Len(result[i].plans) :
                /\ EligiblePlanOf(result[i].plans[k], result[i].combined_product_id)
                /\ result[i].plans[k].service_type \in TypeSet
            /\ \A ty \in TypeSet :
                /\ MinCount(ty) <= PlansOfType(result[i], ty)
                /\ PlansOfType(result[i], ty) <= MaxCountOf(ty)

\* a search that returned bundles of two products, one of which admits a
\* plan of a foreign service type and a plan the other does not admit
C27_Witness ==
    /\ IsSearch
    /\ \E i, j \in 1..Len(result) :
        /\ result[i].combined_product_id = "P1" /\ Len(result[i].plans) = 2
        /\ result[j].combined_product_id = "P2" /\ Len(result[j].plans) = 2
        /\ \E k \in 1..2 : ~EligiblePlanOf(result[j].plans[k], "P1")
    /\ \E cpe \in CombinedProductEligibility :
        /\ cpe.combined_product_id = "P1"
        /\ PlanType[cpe.service_plan_id] \notin TypeSet

(***************************************************************************)
(* C28: only the product's own discounts count.                            *)
(***************************************************************************)
\* the product has no row in Discount
WithoutDiscounts(combined_product_id) ==
    \A d \in Discount : d.combined_product_id # combined_product_id

\* the override values of the product's own rows for a plan, summed
OwnOverrides(combined_product_id, service_plan_id) ==
    LET rows == {row \in MatchingRows(combined_product_id, service_plan_id) :
                    row.override_discount_value # NULL}
    IN  SumOver(rows, [row \in rows |-> row.override_discount_value[1]])

\* C28: the discount total of a bundle of product P is made of the override
\* values of the DiscountConditionByPlan rows whose discount belongs to P: a
\* row of a discount of another product never contributes, and a product
\* without discounts has total_discount_amount = 0 in every bundle and in
\* its pricing.
C28_OnlyOwnDiscountsCount ==
    /\ IsSearch =>
        \A i \in 1..Len(result) :
            /\ result[i].total_discount_amount =
                SumSeq([k \in 1..Len(result[i].plans) |->
                    OwnOverrides(result[i].combined_product_id, result[i].plans[k].id)])
            /\ WithoutDiscounts(result[i].combined_product_id)
                    => result[i].total_discount_amount = 0
    /\ (IsPricing /\ result # None /\ WithoutDiscounts(call.combined_product_id))
            => result.total_discount_amount = 0

\* a returned bundle of a product without discounts that holds a plan which
\* a discount of another product overrides
C28_Witness ==
    /\ IsSearch
    /\ \E i \in 1..Len(result) :
        /\ WithoutDiscounts(result[i].combined_product_id)
        /\ \E k \in 1..Len(result[i].plans) :
            \E row \in DiscountConditionByPlan :
                /\ row.service_plan_id = result[i].plans[k].id
                /\ row.override_discount_value # NULL
                /\ \E d \in Discount : d.id = row.discount_id

(***************************************************************************)
(* C29: the plan condition of an associated plan in the pricing.           *)
(***************************************************************************)
\* the eligible plans the pricing reads, with their own ids
PricedPlans(combined_product_id) ==
    {row \in Range(EligibleRows(combined_product_id)) :
        row.service_type \in {"Mobile", "Internet", "TV"}}

\* what a discount gives to a plan when the condition row is found by the
\* plan's own id
OwnCondAmount(discount, service_plan_id) ==
    LET rows == {dcbp \in DiscountConditionByPlan :
                    /\ dcbp.discount_id = discount.id
                    /\ dcbp.service_plan_id = service_plan_id}
    IN  IF rows = {} THEN 0
        ELSE LET plan_cond == CHOOSE r \in rows : TRUE
             IN  IF plan_cond.override_discount_value # NULL
                    THEN plan_cond.override_discount_value[1]
                    ELSE discount.discount_value

\* C29: in calculate_combined_product_pricing the plan condition applied to
\* an associated plan is a DiscountConditionByPlan row whose service_plan_id
\* is that plan's own id, also when several ServicePlan rows carry the
\* plan's name; so the discount total is the one the rows of the plans' own
\* ids give.
C29_ConditionOfOwnPlanId ==
    (IsPricing /\ result # None) =>
        LET own == {d \in Discount : d.combined_product_id = call.combined_product_id}
            pairs == own \X PricedPlans(call.combined_product_id)
        IN  /\ \A pr \in pairs :
                \A row \in PlanCondRows(pr[1].id, pr[2].name) :
                    row.service_plan_id = pr[2].id
            /\ result.total_discount_amount =
                SumOver(pairs, [pr \in pairs |-> OwnCondAmount(pr[1], pr[2].id)])

(***************************************************************************)
(* C30: a sort_by that is none of the three keys.                          *)
(***************************************************************************)
UnknownSortBy ==
    /\ call.op = "search"
    /\ call.sort_by \notin {"max_discount_amount", "min_final_price",
                            "max_total_base_fee"}

\* the first n elements of s (all of s when it is shorter, none for n < 0)
FirstBundles(s, n) ==
    SubSeq(s, 1, IF n < 0 THEN 0 ELSE IF n < Len(s) THEN n ELSE Len(s))

\* C30 as stated: with a sort_by that is none of the three keys the search
\* raises no error and returns the first `limit` bundles in enumeration order.
C30_AsStated ==
    UnknownSortBy
    => raised = "none" /\ result = FirstBundles(enumerated, call.limit)

\* C30, amended: with a sort_by that is none of the three keys the search
\* raises no error, and with only_products = False and limit >= 0 it returns
\* the first `limit` bundles in enumeration order.
C30_UnknownSortKeepsEnumerationOrder ==
    UnknownSortBy
    => /\ raised = "none"
       /\ (~call.only_products /\ call.limit >= 0)
            => result = FirstBundles(enumerated, call.limit)

\* a truncating call with an unknown key whose result is in none of the three
\* sorted orders
C30_Witness ==
    /\ UnknownSortBy /\ raised = "none"
    /\ ~call.only_products
    /\ call.limit >= 1 /\ Len(enumerated) > call.limit
    /\ result = FirstBundles(enumerated, call.limit)
    /\ \A key \in {"max_discount_amount", "min_final_price", "max_total_base_fee"} :
        result # FirstBundles(SortResults(enumerated, key), call.limit)

====
